---- MODULE Spec2Model ----
(***************************************************************************)
(* Orphan reconciliation and safe deletion of preview_wrangler:            *)
(* OrphanCleaner (orphan_cleaner.py), MarkerScanner (marker_scanner.py)    *)
(* and the clean-orphans command (cli.py).                                 *)
(*                                                                         *)
(* An object key is a sequence of lexical tokens; "/" is a token of its    *)
(* own, so that substring, suffix and split tests are computed on the key  *)
(* text the way the Python string operations compute them.                 *)
(***************************************************************************)
EXTENDS Integers, Sequences, FiniteSets, TLC

(* ------------------------------ bounds --------------------------------- *)

\* longest file list of one project in a mapping handed to delete_orphaned_data
MaxFiles == 2

\* largest batch_size argument
MaxBatch == 2

\* last hour of the modelled day that a window can reach
MaxHour == 1

\* keys per page of a marker listing
PageSize == 1

\* most images of one project of the rotation corrector
MaxImages == 2

(* --------------------------- key text ---------------------------------- *)

SLASH == "/"

\* tokens that are 36 characters of [a-f0-9-]
UuidTokens == {"u1", "p1", "p2"}

K_p1_a   == <<"u1", "/", "p1", "/", "preview.v1", "/", "a", ".jpg">>
K_p1_x   == <<"u1", "/", "p1", "/", "preview.v1", "/", "x", ".v3.gz">>
K_p1_up  == <<"u1", "/", "p1", "/", "p1", ".v3.gz">>
K_p2_b   == <<"u1", "/", "p2", "/", "preview.v1", "/", "b", ".jpg">>
K_p2_sub == <<"u1", "/", "p2", "/", "sub", "/", "preview.v1", "/", "c", ".jpg">>
K_p2_v2  == <<"u1", "/", "p2", "/", "preview.v2", "/", "d", ".jpg">>
K_p2_up  == <<"u1", "/", "p2", "/", "p2", ".v3.gz">>

KeyUniverse == {K_p1_a, K_p1_x, K_p1_up, K_p2_b, K_p2_sub, K_p2_v2, K_p2_up}

\* "/preview.v1/" in key
ContainsPreviewDir(key) ==
    \E i \in 1..(Len(key) - 2) :
        key[i] = SLASH /\ key[i + 1] = "preview.v1" /\ key[i + 2] = SLASH

\* key.endswith(".v3.gz")
EndsWithV3(key) == Len(key) >= 1 /\ key[Len(key)] = ".v3.gz"

\* key.split("/"): the parts of s between its "/" tokens; At(n) is the
\* position of the n-th "/", 0 before the first and Len(s) + 1 after the last
Split(s) ==
    LET slashes == {i \in 1..Len(s) : s[i] = SLASH}
        At(n) == IF n = 0 THEN 0
                 ELSE IF n > Cardinality(slashes) THEN Len(s) + 1
                 ELSE CHOOSE i \in slashes : Cardinality({j \in slashes : j < i}) = n - 1
    IN  [n \in 1..(Cardinality(slashes) + 1) |-> SubSeq(s, At(n - 1) + 1, At(n) - 1)]

\* f"{user_id}/{project_id}"
ProjectPath(user_id, project_id) == user_id \o <<SLASH>> \o project_id

(* ------------------------- marker objects ------------------------------ *)

HourTokens == <<"00", "01", "02", "03">>

\* current.strftime("%Y/%m/%d/%H") of the time t, in minutes of 2024-01-01
DatetimePath(t) == <<"2024", "/", "01", "/", "01", "/", HourTokens[(t \div 60) + 1]>>

MarkerKey(prefix, t, user, project) ==
    <<prefix, "/">> \o DatetimePath(t) \o <<"/", user, "/", project>>

M_pv_p1 == MarkerKey("preview.v1", 0, "u1", "p1")
M_pv_p2 == MarkerKey("preview.v1", 0, "u1", "p2")
M_v3_p1 == MarkerKey("v3", 0, "u1", "p1")
M_v3_p2 == MarkerKey("v3", 60, "u1", "p2")

\* the marker keys the bucket may hold, in the order a listing returns them
MarkerOrder == <<M_pv_p1, M_pv_p2, M_v3_p1, M_v3_p2>>

MarkerUniverse == {MarkerOrder[i] : i \in 1..Len(MarkerOrder)}

(* ------------------------ inventory CSV rows --------------------------- *)

BUCKET == "prod.ml-meta-upload.getnarrativeapp.com"

TS_0010 == "2024-01-01T00:10:00.000Z"
TS_0110 == "2024-01-01T01:10:00.000Z"

R_a       == <<BUCKET, K_p1_a, "5", TS_0010>>
R_x       == <<BUCKET, K_p1_x, "7", TS_0010>>
R_up      == <<BUCKET, K_p1_up, "9", TS_0010>>
R_b       == <<BUCKET, K_p2_b, "3", TS_0110>>
R_sub     == <<BUCKET, K_p2_sub, "2", TS_0110>>
R_v2      == <<BUCKET, K_p2_v2, "4", TS_0110>>
R_short   == <<BUCKET, K_p2_b, "3">>
R_badsize == <<BUCKET, K_p2_b, "abc", TS_0010>>
R_unknown == <<BUCKET, K_p1_a, "5", "unknown">>
R_nodate  == <<BUCKET, K_p1_a, "4", "">>

\* a line whose bytes cannot be decoded: reading it raises
R_undecodable == <<"<undecodable>">>

Part_A == <<R_a, R_x, R_up, R_unknown, R_nodate>>
Part_B == <<R_b, R_sub, R_v2, R_short, R_badsize>>
Part_C == <<R_b, R_a, R_undecodable, R_a, R_x>>

Partitions == {Part_A, Part_B, Part_C}

\* int(row[2]); -1 stands for ValueError
ParseInt(text) ==
    CASE text = "2" -> 2
      [] text = "3" -> 3
      [] text = "4" -> 4
      [] text = "5" -> 5
      [] text = "7" -> 7
      [] text = "9" -> 9
      [] OTHER -> -1

\* datetime.fromisoformat(last_modified.replace("Z", "+00:00")), in minutes
\* of 2024-01-01 UTC; -1 stands for ValueError
ParseIso(text) ==
    CASE text = TS_0010 -> 10
      [] text = TS_0110 -> 70
      [] OTHER -> -1

(* ------------------ dict[str, list] in insertion order ----------------- *)

DictKeys(d) == {d[i].k : i \in 1..Len(d)}

DictHas(d, key) == \E i \in 1..Len(d) : d[i].k = key

DictGet(d, key) == d[CHOOSE i \in 1..Len(d) : d[i].k = key].v

\* d[key].append(x), creating d[key] = [] first when key is new
DictAppend(d, key, x) ==
    IF DictHas(d, key)
    THEN [i \in 1..Len(d) |->
            IF d[i].k = key THEN [k |-> key, v |-> Append(d[i].v, x)] ELSE d[i]]
    ELSE Append(d, [k |-> key, v |-> <<x>>])

RECURSIVE SumLens(_)
SumLens(d) == IF d = <<>> THEN 0 ELSE Len(Head(d).v) + SumLens(Tail(d))

SeqsUpTo(S, n) == UNION {[1..k -> S] : k \in 0..n}

Min(a, b) == IF a < b THEN a ELSE b

(* ------------------------------ state ---------------------------------- *)

VARIABLES
    pc,                \* position of the run
    store,             \* keys of the objects present in the bucket
    markers,           \* marker keys present in the bucket
    store_reachable,   \* whether list_objects_v2 on the bucket answers at all
    manifest,          \* manifest.files: the partitions the latest manifest lists
    snapshot,          \* what fetching the manifest and the partitions does
    csv_paths,         \* the downloaded partitions, each a list of rows
    start_datetime,    \* find_orphaned_data: window start, minutes of 2024-01-01
    end_datetime,      \* find_orphaned_data: window end
    scan_prefix,       \* marker class being scanned
    pending,           \* tasks of the current stage whose result is not merged yet
    futures,           \* future_to_path, future_to_csv: the futures that are done
    all_projects,      \* accumulator of the current scan or pass-1 stage
    preview_projects,  \* scan_for_projects: projects under preview.v1 markers
    v3_projects,       \* scan_for_projects: projects under v3 markers
    valid_projects_list, \* the list scan_for_projects returns
    valid_projects,
    all_inventory_projects,
    orphaned_projects,
    non_orphaned_projects,
    all_project_files, \* _get_project_files_fast: project path -> (key, last_modified)
    total_size,        \* _get_project_files_fast: bytes accumulated
    orphaned_size,     \* total_size returned for the orphaned projects
    non_orphaned_files,
    orphaned_files,    \* project path -> list of (file_path, last_modified)
    dry_run,
    batch_size,
    all_preview_files, \* delete_orphaned_data: flattened keys that passed the filter
    del_i,             \* delete_orphaned_data: loop index i of range(0, n, batch_size)
    files_deleted,
    delete_calls,      \* key lists of the delete_objects calls issued so far
    last_response,     \* what the latest delete_objects call did
    err_total,         \* per-key errors reported by the store so far
    raised,            \* delete_objects calls that raised so far
    ret,               \* value returned by delete_orphaned_data
    pass2_results,     \* what the direct calls of _get_project_files_fast returned
    reports,           \* the calls of generate_report: argument and returned text
    report_file,       \* generate_report: the text in the output file
    image_tasks,       \* _process_single_project: the rotation of each image task
    results            \* _process_single_project: result of each image task

delVars == <<all_preview_files, del_i, files_deleted, delete_calls,
             last_response, err_total, raised, ret>>

argVars == <<orphaned_files, dry_run, batch_size>>

envVars == <<markers, store_reachable, manifest, snapshot, start_datetime, end_datetime>>

\* state of the other entry points
otherVars == <<pass2_results, reports, report_file, image_tasks, results>>

scanVars == <<scan_prefix, preview_projects, v3_projects, valid_projects_list,
              valid_projects>>

reconVars == <<all_inventory_projects, orphaned_projects, non_orphaned_projects>>

collectVars == <<all_project_files, total_size, orphaned_size, non_orphaned_files>>

findVars == <<scanVars, csv_paths, pending, futures, all_projects, reconVars,
              collectVars>>

vars == <<pc, store, envVars, findVars, argVars, delVars, otherVars>>

NoResponse == [kind |-> "none", errs |-> {}, applied |-> FALSE]

NoValue == <<>>

\* non_orphaned_files is None
NoFiles == [present |-> FALSE, d |-> <<>>]

StoreInit == KeyUniverse

(* ---------------------------- MarkerScanner ---------------------------- *)

\* start_datetime.replace(minute=0, second=0, microsecond=0)
RoundToHour(t) == t - (t % 60)

\* the hours of the while loop of _scan_marker_prefix: current <= end_datetime
PathsToScan(scan_start, scan_end) ==
    {t \in scan_start..scan_end : (t - scan_start) % 60 = 0}

\* f"{prefix}/{datetime_path}/"
PathPrefix(prefix, t) == <<prefix, "/">> \o DatetimePath(t) \o <<"/">>

StartsWith(key, prefix) ==
    Len(key) >= Len(prefix) /\ SubSeq(key, 1, Len(prefix)) = prefix

RECURSIVE SelectInOrder(_, _, _)
SelectInOrder(order, keys, prefix) ==
    IF order = <<>> THEN <<>>
    ELSE (IF Head(order) \in keys /\ StartsWith(Head(order), prefix)
          THEN <<Head(order)>> ELSE <<>>)
         \o SelectInOrder(Tail(order), keys, prefix)

\* the keys list_objects_v2 returns for Prefix=path_prefix, over all pages
Listing(path_prefix) == SelectInOrder(MarkerOrder, markers, path_prefix)

NumPages(listing) ==
    IF listing = <<>> THEN 1 ELSE (Len(listing) + PageSize - 1) \div PageSize

\* the projects of the keys read, for keys of at least 7 path parts
ProjectsOfMarkers(keys) ==
    {<<Split(key)[6], Split(key)[7]>> :
        key \in {k \in {keys[i] : i \in 1..Len(keys)} : Len(Split(k)) >= 7}}

\* _scan_single_path when pages_read pages arrive before the listing ends or
\* raises: the exception is caught and the projects read so far are returned
ScanSinglePath(path_prefix, pages_read) ==
    LET listing == Listing(path_prefix) IN
    ProjectsOfMarkers(SubSeq(listing, 1, Min(pages_read * PageSize, Len(listing))))

\* the ascending order of (user_id, project_id) tuples
ProjectOrder == << <<<<"u1">>, <<"p1">>>>, <<<<"u1">>, <<"p2">>>> >>

RECURSIVE SortedFrom(_, _)
SortedFrom(order, S) ==
    IF order = <<>> THEN <<>>
    ELSE (IF Head(order) \in S THEN <<Head(order)>> ELSE <<>>)
         \o SortedFrom(Tail(order), S)

\* sorted(common_projects)
Sorted(S) == SortedFrom(ProjectOrder, S)

SetOf(seq) == {seq[i] : i \in 1..Len(seq)}

(* ------------------------- snapshot reducer ---------------------------- *)

\* preview_pattern.match(key): ^([a-f0-9-]{36})/([a-f0-9-]{36})/preview\.v1/
PreviewPatternMatches(key) ==
    /\ Len(key) >= 6
    /\ key[1] \in UuidTokens
    /\ key[2] = SLASH
    /\ key[3] \in UuidTokens
    /\ key[4] = SLASH
    /\ key[5] = "preview.v1"
    /\ key[6] = SLASH

\* the row loop of _process_csv_for_projects; an exception ends the loop and
\* the projects added so far are returned
RECURSIVE ProjectsOfRows(_, _)
ProjectsOfRows(rows, preview_projs) ==
    IF rows = <<>> THEN preview_projs
    ELSE LET row == Head(rows) IN
         IF row = R_undecodable THEN preview_projs
         ELSE IF Len(row) < 2 THEN ProjectsOfRows(Tail(rows), preview_projs)
         ELSE IF PreviewPatternMatches(row[2])
              THEN ProjectsOfRows(Tail(rows),
                       preview_projs \cup {<<<<row[2][1]>>, <<row[2][3]>>>>})
              ELSE ProjectsOfRows(Tail(rows), preview_projs)

ProcessCsvForProjects(csv) == ProjectsOfRows(csv, {})

NoneTime == -1

\* the date test of one row: TRUE when the row is kept
PassesDateFilter_FailOpen(last_modified, start, end) ==
    IF start # NoneTime /\ end # NoneTime
    THEN LET file_datetime == ParseIso(last_modified) IN
         file_datetime = -1 \/ (start <= file_datetime /\ file_datetime <= end)
    ELSE TRUE

PassesDateFilter_NoUpperBound(last_modified, start, end) ==
    IF start # NoneTime /\ end # NoneTime
    THEN LET file_datetime == ParseIso(last_modified) IN
         file_datetime # -1 /\ start <= file_datetime
    ELSE TRUE

PassesDateFilter(last_modified, start, end) ==
    IF start # NoneTime /\ end # NoneTime
    THEN LET file_datetime == ParseIso(last_modified) IN
         file_datetime # -1 /\ start <= file_datetime /\ file_datetime <= end
    ELSE TRUE

\* the row loop of _process_csv_for_all_projects
RECURSIVE FilesOfRows(_, _, _, _, _)
FilesOfRows(rows, orphaned_projects_set, start, end, project_files) ==
    IF rows = <<>> THEN project_files
    ELSE LET row == Head(rows)
             rest == Tail(rows)
         IN
         IF row = R_undecodable THEN project_files
         ELSE IF Len(row) < 4
              THEN FilesOfRows(rest, orphaned_projects_set, start, end, project_files)
         ELSE LET key == row[2]
                  parsed == ParseInt(row[3])
                  size == IF parsed = -1 THEN 0 ELSE parsed
                  last_modified == row[4]
                  parts == Split(key)
              IN
              IF /\ ContainsPreviewDir(key)
                 /\ Len(parts) >= 3
                 /\ <<parts[1], parts[2]>> \in orphaned_projects_set
                 /\ PassesDateFilter(last_modified, start, end)
              THEN FilesOfRows(rest, orphaned_projects_set, start, end,
                       DictAppend(project_files, ProjectPath(parts[1], parts[2]),
                                  <<key, size, last_modified>>))
              ELSE FilesOfRows(rest, orphaned_projects_set, start, end, project_files)

ProcessCsvForAllProjects(csv, orphaned_projects_set, start, end) ==
    FilesOfRows(csv, orphaned_projects_set, start, end, <<>>)

RECURSIVE SumSizes(_)
SumSizes(file_data) ==
    IF file_data = <<>> THEN 0 ELSE Head(file_data)[2] + SumSizes(Tail(file_data))

\* what one project's file_data of a CSV result adds to total_size
AddedSize_LastFileOnly(file_data) ==
    IF file_data = <<>> THEN 0 ELSE file_data[Len(file_data)][2]

AddedSize(file_data) == SumSizes(file_data)

\* all_project_files[project_path] gets the files of one CSV result
AppendFiles_Overwrite(files, project_path, file_data) ==
    LET found == [i \in 1..Len(file_data) |-> <<file_data[i][1], file_data[i][3]>>] IN
    IF DictHas(files, project_path)
    THEN [i \in 1..Len(files) |->
            IF files[i].k = project_path THEN [k |-> project_path, v |-> found]
            ELSE files[i]]
    ELSE Append(files, [k |-> project_path, v |-> found])

\* the same, a record already in the list of the project being left out
RECURSIVE AppendFiles_Dedup(_, _, _)
AppendFiles_Dedup(files, project_path, file_data) ==
    IF file_data = <<>> THEN files
    ELSE LET record == <<Head(file_data)[1], Head(file_data)[3]>> IN
         AppendFiles_Dedup(
             IF DictHas(files, project_path)
                    /\ \E i \in 1..Len(DictGet(files, project_path)) :
                           DictGet(files, project_path)[i] = record
             THEN files
             ELSE DictAppend(files, project_path, record),
             project_path, Tail(file_data))

RECURSIVE AppendFiles(_, _, _)
AppendFiles(files, project_path, file_data) ==
    IF file_data = <<>> THEN files
    ELSE AppendFiles(
             DictAppend(files, project_path, <<Head(file_data)[1], Head(file_data)[3]>>),
             project_path, Tail(file_data))

\* the merge of one CSV result into all_project_files and total_size
RECURSIVE MergeCsvResult(_, _, _)
MergeCsvResult(files, total, csv_project_files) ==
    IF csv_project_files = <<>> THEN [files |-> files, total |-> total]
    ELSE LET item == Head(csv_project_files) IN
         MergeCsvResult(AppendFiles(files, item.k, item.v),
                        total + AddedSize(item.v),
                        Tail(csv_project_files))

(* -------------------------- find_orphaned_data ------------------------- *)

\* orphaned_projects = all_inventory_projects - valid_projects
OrphanedOf_NoMarkerCheck(inventory, valid) == inventory

OrphanedOf(inventory, valid) == inventory \ valid

\* non_orphaned_projects = all_inventory_projects.intersection(valid_projects)
NonOrphanedOf_NoMarkerCheck(inventory, valid) == inventory

NonOrphanedOf(inventory, valid) == inventory \cap valid

\* the clean-orphans command always asks for the non-orphaned files
return_non_orphaned == TRUE

\* find_orphaned_data starts the marker scan: the preview.v1 tasks are submitted
StartScan ==
    /\ pc = "start"
    /\ scan_prefix' = "preview.v1"
    /\ pending' = PathsToScan(RoundToHour(start_datetime), RoundToHour(end_datetime))
    /\ all_projects' = {}
    /\ pc' = "scan"
    /\ futures' = <<>>
    /\ UNCHANGED <<store, envVars, otherVars, csv_paths, preview_projects, v3_projects,
                   valid_projects_list, valid_projects, reconVars, collectVars,
                   argVars, delVars>>

\* the pages a listing task can read before it ends or raises; with the bucket
\* out of reach the first request raises
PagesRead(path_prefix) ==
    IF store_reachable THEN 0..NumPages(Listing(path_prefix)) ELSE {0}

\* one listing task completes and its projects are merged
ScanTask ==
    /\ pc = "scan"
    /\ \E t \in pending :
         LET path_prefix == PathPrefix(scan_prefix, t) IN
         \E pages_read \in PagesRead(path_prefix) :
            /\ all_projects' = all_projects \cup ScanSinglePath(path_prefix, pages_read)
            /\ pending' = pending \ {t}
    /\ UNCHANGED <<pc, store, futures, envVars, otherVars, csv_paths, scanVars, reconVars,
                   collectVars, argVars, delVars>>

\* _scan_marker_prefix("preview.v1") returns; the v3 tasks are submitted
ScanPreviewDone_NoWait ==
    /\ pc = "scan"
    /\ scan_prefix = "preview.v1"
    /\ preview_projects' = all_projects
    /\ scan_prefix' = "v3"
    /\ pending' = PathsToScan(RoundToHour(start_datetime), RoundToHour(end_datetime))
    /\ all_projects' = {}
    /\ futures' = <<>>
    /\ UNCHANGED <<pc, store, envVars, otherVars, csv_paths, v3_projects,
                   valid_projects_list, valid_projects, reconVars, collectVars,
                   argVars, delVars>>

ScanPreviewDone ==
    /\ pc = "scan"
    /\ scan_prefix = "preview.v1"
    /\ pending = {}
    /\ preview_projects' = all_projects
    /\ scan_prefix' = "v3"
    /\ pending' = PathsToScan(RoundToHour(start_datetime), RoundToHour(end_datetime))
    /\ all_projects' = {}
    /\ futures' = <<>>
    /\ UNCHANGED <<pc, store, envVars, otherVars, csv_paths, v3_projects,
                   valid_projects_list, valid_projects, reconVars, collectVars,
                   argVars, delVars>>

\* common_projects = preview_projects.intersection(v3_projects)
CommonProjects_Union(preview, v3) == preview \cup v3

CommonProjects(preview, v3) == preview \cap v3

\* _scan_marker_prefix("v3") returns; scan_for_projects returns the sorted
\* intersection and find_orphaned_data makes a set of it
ScanV3Done ==
    /\ pc = "scan"
    /\ scan_prefix = "v3"
    /\ pending = {}
    /\ v3_projects' = all_projects
    /\ valid_projects_list' = Sorted(CommonProjects(preview_projects, all_projects))
    /\ valid_projects' = SetOf(valid_projects_list')
    /\ all_projects' = {}
    /\ pc' = "inventory"
    /\ futures' = <<>>
    /\ UNCHANGED <<store, envVars, otherVars, csv_paths, scan_prefix, preview_projects,
                   pending, reconVars, collectVars, argVars, delVars>>

\* download_csv_files(manifest): the paths of the partitions that were fetched;
\* a download that raises is logged and its partition left out
DownloadCsvFiles(files) == IF snapshot = "download_error" THEN <<>> ELSE files

\* get_latest_manifest raises and find_orphaned_data with it; otherwise the
\* partitions are downloaded and one pass-1 task per CSV file is submitted
StartPass1 ==
    /\ pc = "inventory"
    /\ IF snapshot = "manifest_error"
       THEN /\ pc' = "failed"
            /\ UNCHANGED <<csv_paths, pending>>
       ELSE /\ pc' = "pass1"
            /\ csv_paths' = DownloadCsvFiles(manifest)
            /\ pending' = 1..Len(csv_paths')
    /\ all_projects' = {}
    /\ preview_projects' = {}
    /\ v3_projects' = {}
    /\ valid_projects_list' = <<>>
    /\ futures' = <<>>
    /\ UNCHANGED <<store, envVars, otherVars, scan_prefix, valid_projects, reconVars,
                   collectVars, argVars, delVars>>

\* one pass-1 task completes and its projects are merged
Pass1Task ==
    /\ pc = "pass1"
    /\ \E i \in pending :
         /\ all_projects' = all_projects \cup ProcessCsvForProjects(csv_paths[i])
         /\ pending' = pending \ {i}
    /\ UNCHANGED <<pc, store, futures, envVars, otherVars, csv_paths, scanVars, reconVars,
                   collectVars, argVars, delVars>>

\* _parse_csv_files_fast returns, the orphaned and non-orphaned sets are
\* computed and the pass-2 tasks for the orphaned projects are submitted
Reconcile ==
    /\ pc = "pass1"
    /\ pending = {}
    /\ all_inventory_projects' = all_projects
    /\ orphaned_projects' = OrphanedOf(all_projects, valid_projects)
    /\ non_orphaned_projects' = NonOrphanedOf(all_projects, valid_projects)
    /\ all_projects' = {}
    /\ pending' = 1..Len(csv_paths)
    /\ all_project_files' = <<>>
    /\ total_size' = 0
    /\ pc' = "pass2_orphaned"
    /\ futures' = <<>>
    /\ UNCHANGED <<store, envVars, otherVars, csv_paths, scanVars, orphaned_size,
                   non_orphaned_files,
                   argVars, delVars>>

\* one pass-2 task completes and its files are merged
Pass2Task ==
    /\ pc \in {"pass2_orphaned", "pass2_non_orphaned"}
    /\ \E i \in pending :
         LET projects == IF pc = "pass2_orphaned" THEN orphaned_projects
                         ELSE non_orphaned_projects
             csv_project_files ==
                 ProcessCsvForAllProjects(csv_paths[i], projects,
                                          start_datetime, end_datetime)
             merged == MergeCsvResult(all_project_files, total_size, csv_project_files)
         IN
         /\ all_project_files' = merged.files
         /\ total_size' = merged.total
         /\ pending' = pending \ {i}
    /\ UNCHANGED <<pc, store, futures, envVars, otherVars, csv_paths, scanVars, all_projects,
                   reconVars, orphaned_size,
                   non_orphaned_files, argVars, delVars>>

\* _get_project_files_fast returns for the orphaned projects
OrphanedCollected ==
    /\ pc = "pass2_orphaned"
    /\ pending = {}
    /\ orphaned_files' = all_project_files
    /\ orphaned_size' = total_size
    /\ IF return_non_orphaned /\ non_orphaned_projects # {}
       THEN /\ pending' = 1..Len(csv_paths)
            /\ pc' = "pass2_non_orphaned"
            /\ UNCHANGED non_orphaned_files
       ELSE /\ pending' = {}
            /\ pc' = "found"
            /\ non_orphaned_files' = NoFiles
    /\ all_project_files' = <<>>
    /\ total_size' = 0
    /\ futures' = <<>>
    /\ UNCHANGED <<store, envVars, otherVars, csv_paths, scanVars, all_projects,
                   reconVars, dry_run,
                   batch_size, delVars>>

\* _get_project_files_fast returns for the non-orphaned projects
NonOrphanedCollected ==
    /\ pc = "pass2_non_orphaned"
    /\ pending = {}
    /\ non_orphaned_files' = [present |-> TRUE, d |-> all_project_files]
    /\ all_project_files' = <<>>
    /\ total_size' = 0
    /\ pc' = "found"
    /\ futures' = <<>>
    /\ UNCHANGED <<store, envVars, otherVars, csv_paths, scanVars, pending, all_projects,
                   reconVars,
                   orphaned_size, argVars, delVars>>

(* ----------------------- delete_orphaned_data -------------------------- *)

\* the safety check of one file path
IsPreviewFile_NoSuffixCheck(file_path) == ContainsPreviewDir(file_path)

IsPreviewFile(file_path) ==
    ContainsPreviewDir(file_path) /\ ~EndsWithV3(file_path)

\* preview_files = [file_path for file_path, _ in files if ...]
RECURSIVE PreviewFilesOf(_)
PreviewFilesOf(files) ==
    IF files = <<>> THEN <<>>
    ELSE (IF IsPreviewFile(Head(files)[1]) THEN <<Head(files)[1]>> ELSE <<>>)
         \o PreviewFilesOf(Tail(files))

\* the loop over orphaned_files.items() that extends all_preview_files
RECURSIVE CollectPreviewFiles(_)
CollectPreviewFiles(d) ==
    IF d = <<>> THEN <<>>
    ELSE PreviewFilesOf(Head(d).v) \o CollectPreviewFiles(Tail(d))

\* all_preview_files[i : i + batch_size]
BatchAt_InclusiveEnd(all, i, b) == SubSeq(all, i + 1, Min(i + b + 1, Len(all)))

BatchAt(all, i, b) == SubSeq(all, i + 1, Min(i + b, Len(all)))

\* what a delete_objects call can do: return with no "Errors", return with
\* per-key errors, or raise (the request may or may not have been applied)
Responses(batch) ==
    {[kind |-> "ok", errs |-> {}, applied |-> TRUE]}
    \cup {[kind |-> "errors", errs |-> E, applied |-> TRUE] :
            E \in (SUBSET (1..Len(batch))) \ {{}}}
    \cup {[kind |-> "raise", errs |-> {}, applied |-> a] : a \in BOOLEAN}

\* successful_deletes of one batch whose call returned
SuccessfulDeletes_IgnoreErrors(batch, response) == Len(batch)

SuccessfulDeletes(batch, response) ==
    IF response.kind = "errors"
    THEN Len(batch) - Cardinality(response.errs)
    ELSE Len(batch)

\* the bucket after one delete_objects call
StoreAfter(batch, response) ==
    IF response.applied
    THEN store \ {batch[j] : j \in (1..Len(batch)) \ response.errs}
    ELSE store

\* entry of delete_orphaned_data up to the first batch, or the dry-run return
DeleteCall_NoDryRun ==
    /\ pc = "delete_call"
    /\ all_preview_files' = CollectPreviewFiles(orphaned_files)
    /\ files_deleted' = 0
    /\ del_i' = 0
    /\ pc' = "delete_loop"
    /\ UNCHANGED <<store, envVars, otherVars, findVars, argVars, delete_calls, last_response,
                   err_total, raised, ret>>

DeleteCall ==
    /\ pc = "delete_call"
    /\ IF dry_run
       THEN /\ ret' = <<Len(orphaned_files), SumLens(orphaned_files)>>
            /\ pc' = "delete_returned"
            /\ UNCHANGED <<all_preview_files, files_deleted, del_i>>
       ELSE /\ all_preview_files' = CollectPreviewFiles(orphaned_files)
            /\ files_deleted' = 0
            /\ del_i' = 0
            /\ pc' = "delete_loop"
            /\ ret' = ret
    /\ UNCHANGED <<store, envVars, otherVars, findVars, argVars, delete_calls, last_response,
                   err_total, raised>>

\* where the loop goes after a batch
AfterBatch_StopOnErrors(response) ==
    IF response.kind = "errors" THEN Len(all_preview_files) ELSE del_i + batch_size

AfterBatch_StopOnRaise(response) ==
    IF response.kind = "raise" THEN Len(all_preview_files) ELSE del_i + batch_size

AfterBatch(response) == del_i + batch_size

\* one iteration of the batch loop
DeleteBatch ==
    /\ pc = "delete_loop"
    /\ del_i < Len(all_preview_files)
    /\ LET batch == BatchAt(all_preview_files, del_i, batch_size) IN
       \E response \in Responses(batch) :
          /\ delete_calls' = Append(delete_calls, batch)
          /\ store' = StoreAfter(batch, response)
          /\ last_response' = response
          /\ err_total' = err_total + Cardinality(response.errs)
          /\ raised' = raised + (IF response.kind = "raise" THEN 1 ELSE 0)
          /\ files_deleted' =
                IF response.kind = "raise" THEN files_deleted
                ELSE files_deleted + SuccessfulDeletes(batch, response)
          /\ del_i' = AfterBatch(response)
    /\ UNCHANGED <<pc, envVars, otherVars, findVars, argVars, all_preview_files, ret>>

\* the loop is exhausted: return projects_deleted, files_deleted
DeleteReturn ==
    /\ pc = "delete_loop"
    /\ del_i >= Len(all_preview_files)
    /\ ret' = <<Len(orphaned_files), files_deleted>>
    /\ pc' = "delete_returned"
    /\ UNCHANGED <<store, envVars, otherVars, findVars, argVars, all_preview_files, del_i,
                   files_deleted, delete_calls, last_response, err_total, raised>>

(* ------------- delete_orphaned_data called on any mapping ------------- *)

ProjectPaths == {ProjectPath(<<"u1">>, <<"p1">>), ProjectPath(<<"u1">>, <<"p2">>)}

DeleteKeys == {K_p1_a, K_p1_x, K_p2_b, K_p2_v2}

FileLists == SeqsUpTo({<<k, "2024-01-01T00:30:00Z">> : k \in DeleteKeys}, MaxFiles)

\* every mapping of distinct project paths, in every insertion order
Mappings ==
    UNION {
        {[i \in 1..Len(ps) |-> [k |-> ps[i], v |-> fs[i]]] :
            fs \in [1..Len(ps) -> FileLists]} :
        ps \in {q \in SeqsUpTo(ProjectPaths, Cardinality(ProjectPaths)) :
                    \A i, j \in 1..Len(q) : i # j => q[i] # q[j]}}

\* nothing scanned, parsed or collected yet
FindInit ==
    /\ scan_prefix = "preview.v1"
    /\ pending = {}
    /\ futures = <<>>
    /\ all_projects = {}
    /\ preview_projects = {}
    /\ v3_projects = {}
    /\ valid_projects_list = <<>>
    /\ valid_projects = {}
    /\ csv_paths = <<>>
    /\ all_inventory_projects = {}
    /\ orphaned_projects = {}
    /\ non_orphaned_projects = {}
    /\ all_project_files = <<>>
    /\ total_size = 0
    /\ orphaned_size = 0
    /\ non_orphaned_files = NoFiles

\* no call of the other entry points
OtherInit ==
    /\ pass2_results = <<>>
    /\ reports = <<>>
    /\ report_file = NoValue
    /\ image_tasks = <<>>
    /\ results = <<>>

DelInit ==
    /\ all_preview_files = <<>>
    /\ del_i = 0
    /\ files_deleted = 0
    /\ delete_calls = <<>>
    /\ last_response = NoResponse
    /\ err_total = 0
    /\ raised = 0
    /\ ret = NoValue

InitDelete ==
    /\ pc = "delete_call"
    /\ store = StoreInit
    /\ markers = {}
    /\ store_reachable = TRUE
    /\ manifest = <<>>
    /\ snapshot = "ok"
    /\ start_datetime = 0
    /\ end_datetime = 0
    /\ FindInit
    /\ orphaned_files \in Mappings
    /\ dry_run \in BOOLEAN
    /\ batch_size \in 1..MaxBatch
    /\ DelInit
    /\ OtherInit

NextDelete == DeleteCall \/ DeleteBatch \/ DeleteReturn

SpecDelete == InitDelete /\ [][NextDelete]_vars

\* delete_orphaned_data called on a mapping of at most MaxFiles + 1 files
InitDeleteFew == InitDelete /\ SumLens(orphaned_files) <= MaxFiles + 1

SpecDeleteFew == InitDeleteFew /\ [][NextDelete]_vars

\* every delete_objects call comes back, with a response or an exception,
\* and the loop goes on
FairDelete == SpecDeleteFew /\ WF_vars(NextDelete)

(* ------------------------- clean-orphans command ----------------------- *)

\* after find_orphaned_data: nothing found, the dry-run listing, or the prompt
AfterFind_IgnoresDryRun ==
    /\ pc = "found"
    /\ pc' = IF orphaned_files = <<>> THEN "done" ELSE "confirm"
    /\ UNCHANGED <<store, envVars, otherVars, findVars, argVars, delVars>>

AfterFind ==
    /\ pc = "found"
    /\ pc' = IF orphaned_files = <<>> \/ dry_run THEN "done" ELSE "confirm"
    /\ UNCHANGED <<store, envVars, otherVars, findVars, argVars, delVars>>

\* click.confirm(..., abort=True): a refusal ends the command
Confirm ==
    /\ pc = "confirm"
    /\ \E answer \in BOOLEAN : pc' = IF answer THEN "delete_call" ELSE "done"
    /\ UNCHANGED <<store, envVars, otherVars, findVars, argVars, delVars>>

\* the command prints the counts and ends
Finish ==
    /\ pc = "delete_returned"
    /\ pc' = "done"
    /\ UNCHANGED <<store, envVars, otherVars, findVars, argVars, delVars>>

\* what the inventory bucket can do in a run: deliver the manifest and every
\* partition, fail on the manifest, or deliver the manifest and fail on every
\* partition it lists
SnapshotOutcomes(files) ==
    {"ok"} \cup (IF files = <<>> THEN {"manifest_error"} ELSE {"download_error"})

\* the marker objects of the bucket; no listing shows them when the bucket is
\* out of reach, and then the bucket holds them all
MarkerSets(reachable) ==
    IF reachable THEN SUBSET MarkerUniverse ELSE {MarkerUniverse}

Times == {h * 60 + m : h \in 0..MaxHour, m \in {0, 30}}

Init ==
    /\ pc = "start"
    /\ store = StoreInit
    /\ store_reachable \in BOOLEAN
    /\ markers \in MarkerSets(store_reachable)
    /\ manifest \in SeqsUpTo(Partitions, 2)
    /\ snapshot \in SnapshotOutcomes(manifest)
    /\ start_datetime \in Times
    /\ end_datetime \in {t \in Times : start_datetime <= t}
    /\ FindInit
    /\ orphaned_files = <<>>
    /\ dry_run \in BOOLEAN
    /\ batch_size \in 1..MaxBatch
    /\ DelInit
    /\ OtherInit

Next ==
    \/ StartScan \/ ScanTask \/ ScanPreviewDone \/ ScanV3Done
    \/ StartPass1 \/ Pass1Task \/ Reconcile
    \/ Pass2Task \/ OrphanedCollected \/ NonOrphanedCollected
    \/ AfterFind \/ Confirm
    \/ DeleteCall \/ DeleteBatch \/ DeleteReturn \/ Finish

Spec == Init /\ [][Next]_vars

(* ------------- _get_project_files_fast called on any arguments --------- *)

\* the start_datetime and end_datetime arguments: a time or None
DateArgs == Times \cup {NoneTime}

\* entry of _get_project_files_fast: one task per CSV file is submitted. The
\* first call takes the date arguments as given; the second call repeats
\* them or passes no date range.
Pass2Call ==
    /\ pc = "pass2_call"
    /\ IF pass2_results = <<>>
       THEN UNCHANGED <<start_datetime, end_datetime>>
       ELSE \E same_range \in BOOLEAN :
               IF same_range
               THEN UNCHANGED <<start_datetime, end_datetime>>
               ELSE start_datetime' = NoneTime /\ end_datetime' = NoneTime
    /\ all_project_files' = <<>>
    /\ total_size' = 0
    /\ pending' = 1..Len(csv_paths)
    /\ pc' = "pass2_orphaned"
    /\ futures' = <<>>
    /\ UNCHANGED <<store, markers, store_reachable, manifest, snapshot, otherVars,
                   csv_paths, scanVars, all_projects, reconVars, orphaned_size,
                   non_orphaned_files, argVars, delVars>>

\* return all_project_files, total_size
Pass2Return ==
    /\ pc = "pass2_orphaned"
    /\ pending = {}
    /\ pass2_results' = Append(pass2_results,
                               [start |-> start_datetime, end |-> end_datetime,
                                files |-> all_project_files, total |-> total_size])
    /\ pc' = IF pass2_results = <<>> THEN "pass2_call" ELSE "pass2_returned"
    /\ UNCHANGED <<store, envVars, findVars, argVars, delVars, reports, report_file,
                   image_tasks, results>>

InitPass2 ==
    /\ pc = "pass2_call"
    /\ store = StoreInit
    /\ markers = {}
    /\ store_reachable = TRUE
    /\ manifest = <<>>
    /\ snapshot = "ok"
    /\ csv_paths \in SeqsUpTo(Partitions, 2)
    /\ orphaned_projects \in SUBSET SetOf(ProjectOrder)
    /\ start_datetime \in DateArgs
    /\ end_datetime \in DateArgs
    /\ scan_prefix = "preview.v1"
    /\ pending = {}
    /\ futures = <<>>
    /\ all_projects = {}
    /\ preview_projects = {}
    /\ v3_projects = {}
    /\ valid_projects_list = <<>>
    /\ valid_projects = {}
    /\ all_inventory_projects = {}
    /\ non_orphaned_projects = {}
    /\ all_project_files = <<>>
    /\ total_size = 0
    /\ orphaned_size = 0
    /\ non_orphaned_files = NoFiles
    /\ orphaned_files = <<>>
    /\ dry_run = TRUE
    /\ batch_size = 1
    /\ DelInit
    /\ OtherInit

NextPass2 == Pass2Call \/ Pass2Task \/ Pass2Return

SpecPass2 == InitPass2 /\ [][NextPass2]_vars

(* ----------------------------- generate_report ------------------------- *)

Digits == <<"0", "1", "2", "3", "4", "5", "6", "7", "8", "9">>

\* the decimal text of a count in an f-string
RECURSIVE Str(_)
Str(n) ==
    IF n < 10 THEN <<Digits[n + 1]>>
    ELSE Str(n \div 10) \o <<Digits[(n % 10) + 1]>>

\* the ascending order of the project path strings
PathOrder == <<ProjectPath(<<"u1">>, <<"p1">>), ProjectPath(<<"u1">>, <<"p2">>)>>

\* the project paths in the order the report walks them
ReportOrder_Insertion(d) == [i \in 1..Len(d) |-> d[i].k]

ReportOrder(d) == SortedFrom(PathOrder, DictKeys(d))

\* [file_path for file_path, _ in files if "/preview.v1/" in file_path]
ReportPreviewFiles(files) ==
    SelectSeq([i \in 1..Len(files) |-> files[i][1]], ContainsPreviewDir)

\* [file_path for file_path, _ in files if file_path.endswith(".v3.gz")]
ReportV3Files(files) ==
    SelectSeq([i \in 1..Len(files) |-> files[i][1]], EndsWithV3)

ReportOtherFiles(files) ==
    SelectSeq([i \in 1..Len(files) |-> files[i][1]],
              LAMBDA file_path : /\ file_path \notin SetOf(ReportPreviewFiles(files))
                                 /\ file_path \notin SetOf(ReportV3Files(files)))

\* the lines of one project section
ProjectSection(project_path, files) ==
    << <<"### ">> \o project_path, <<"  Files: ">> \o Str(Len(files)) >>
    \o (IF ReportPreviewFiles(files) # <<>>
        THEN << <<"  - Preview files: ">> \o Str(Len(ReportPreviewFiles(files))) >>
        ELSE <<>>)
    \o (IF ReportV3Files(files) # <<>>
        THEN << <<"  - V3 files: ">> \o Str(Len(ReportV3Files(files))) >>
        ELSE <<>>)
    \o (IF ReportOtherFiles(files) # <<>>
        THEN << <<"  - Other files: ">> \o Str(Len(ReportOtherFiles(files))) >>
        ELSE <<>>)
    \o << <<>> >>

RECURSIVE ProjectSections(_, _)
ProjectSections(paths, d) ==
    IF paths = <<>> THEN <<>>
    ELSE ProjectSection(Head(paths), DictGet(d, Head(paths)))
         \o ProjectSections(Tail(paths), d)

ReportLines(d) ==
    << <<"# Orphaned Preview Data Report">>, <<>>,
       <<"Total orphaned projects: ">> \o Str(Len(d)),
       <<"Total orphaned files: ">> \o Str(SumLens(d)),
       <<>>, <<"## Projects and Files">>, <<>> >>
    \o ProjectSections(ReportOrder(d), d)

\* "\n".join(report_lines)
RECURSIVE JoinLines(_)
JoinLines(lines) ==
    IF lines = <<>> THEN <<>>
    ELSE IF Len(lines) = 1 THEN Head(lines)
    ELSE Head(lines) \o <<"\n">> \o JoinLines(Tail(lines))

\* generate_report(orphaned_files, output_file): the text is written to the
\* output file when one is given, and returned
GenerateReport ==
    /\ pc = "report_call"
    /\ LET report == JoinLines(ReportLines(orphaned_files)) IN
       /\ \E output_file \in BOOLEAN :
             report_file' = IF output_file THEN report ELSE report_file
       /\ reports' = Append(reports, [orphaned_files |-> orphaned_files,
                                      report |-> report])
    /\ pc' = IF reports = <<>> THEN "report_again" ELSE "report_returned"
    /\ UNCHANGED <<store, envVars, findVars, argVars, delVars, pass2_results,
                   image_tasks, results>>

\* the same project paths with the same file lists, inserted in any order: the
\* order of the keys of a file index is the order in which the CSV results
\* were merged
Reinsertions(d) ==
    {e \in [1..Len(d) -> SetOf(d)] : \A i \in 1..Len(d) : \E j \in 1..Len(d) : e[j] = d[i]}

\* the caller holds a mapping of the same content, built in another order
Reinsert ==
    /\ pc = "report_again"
    /\ orphaned_files' \in Reinsertions(orphaned_files)
    /\ pc' = "report_call"
    /\ UNCHANGED <<store, envVars, findVars, dry_run, batch_size, delVars, otherVars>>

InitReport ==
    /\ pc = "report_call"
    /\ store = StoreInit
    /\ markers = {}
    /\ store_reachable = TRUE
    /\ manifest = <<>>
    /\ snapshot = "ok"
    /\ start_datetime = 0
    /\ end_datetime = 0
    /\ FindInit
    /\ orphaned_files \in Mappings
    /\ dry_run = TRUE
    /\ batch_size = 1
    /\ DelInit
    /\ OtherInit

NextReport == GenerateReport \/ Reinsert

SpecReport == InitReport /\ [][NextReport]_vars

(* ------------------------- V3RotationCorrector ------------------------- *)

\* values of the "rotation" field of an image in a parsed v3 file
PyNone == [type |-> "NoneType", value |-> "None"]

PyStr(s) == [type |-> "str", value |-> s]

PyInt(s) == [type |-> "int", value |-> s]

PyList(s) == [type |-> "list", value |-> s]

RotationValues ==
    {PyNone, PyStr("None"), PyStr("CW90"), PyStr("CW180"), PyStr("CW270"),
     PyStr("CCW90"), PyStr("CCW180"), PyStr("CCW270"), PyStr("unknown"),
     PyInt("90"), PyList("[]")}

\* rotation_map
RotationMap ==
    [key \in {"CW90", "CW180", "CW270", "CCW90", "CCW180", "CCW270"} |->
        CASE key = "CW90" -> 270
          [] key = "CW180" -> 180
          [] key = "CW270" -> 90
          [] key = "CCW90" -> 90
          [] key = "CCW180" -> 180
          [] key = "CCW270" -> 270]

\* hash(rotation) raises TypeError for a list or a dict
Hashable(rotation) == rotation.type \notin {"list", "dict"}

\* what a call does: return degrees, or raise
Returns(n) == [raises |-> FALSE, degrees |-> n]

RaisesTypeError == [raises |-> TRUE, degrees |-> -1]

\* _rotation_to_degrees(rotation)
RotationToDegrees(rotation) ==
    IF rotation = PyNone \/ rotation = PyStr("None") THEN Returns(0)
    ELSE IF ~Hashable(rotation) THEN RaisesTypeError
    ELSE IF rotation.type = "str" /\ rotation.value \in DOMAIN RotationMap
         THEN Returns(RotationMap[rotation.value])
         ELSE Returns(0)

\* the result of _process_image_task; angle is the key of
\* corrections_by_angle that was incremented, -1 when none was
ImageResult(conversion, corrected, skipped, errors, angle) ==
    [conversion |-> conversion, corrected |-> corrected, skipped |-> skipped,
     errors |-> errors, angle |-> angle]

\* _process_image_task on the next image of the project: the conversion, then
\* _apply_rotation, which returns False for 0 degrees and can raise otherwise
ProcessImageTask ==
    /\ pc = "rotate"
    /\ Len(results) < Len(image_tasks)
    /\ LET rotation == image_tasks[Len(results) + 1]
           conversion == RotationToDegrees(rotation)
       IN
       IF conversion.raises
       THEN results' = Append(results, ImageResult(conversion, 0, 0, 1, -1))
       ELSE IF conversion.degrees = 0
       THEN results' = Append(results, ImageResult(conversion, 0, 1, 0, 0))
       ELSE \E rotated \in BOOLEAN :
               results' = Append(results,
                   IF rotated THEN ImageResult(conversion, 1, 0, 0, conversion.degrees)
                   ELSE ImageResult(conversion, 0, 0, 1, -1))
    /\ UNCHANGED <<pc, store, envVars, findVars, argVars, delVars, pass2_results,
                   reports, report_file, image_tasks>>

InitRotation ==
    /\ pc = "rotate"
    /\ store = StoreInit
    /\ markers = {}
    /\ store_reachable = TRUE
    /\ manifest = <<>>
    /\ snapshot = "ok"
    /\ start_datetime = 0
    /\ end_datetime = 0
    /\ FindInit
    /\ orphaned_files = <<>>
    /\ dry_run = TRUE
    /\ batch_size = 1
    /\ DelInit
    /\ pass2_results = <<>>
    /\ reports = <<>>
    /\ report_file = NoValue
    /\ image_tasks \in SeqsUpTo(RotationValues, MaxImages)
    /\ results = <<>>

NextRotation == ProcessImageTask

SpecRotation == InitRotation /\ [][NextRotation]_vars

(* --------------- the stages of find_orphaned_data, by future ----------- *)

\* the stages that submit tasks to an executor and collect their futures
FanInStages == {"scan", "pass1", "pass2_orphaned", "pass2_non_orphaned"}

\* future.result() returns the value the worker function returned
Returned(value) == [raised |-> FALSE, value |-> value]

\* future.result() raises: the worker ended with an exception it did not
\* catch, or the pool lost its process
Raised(nothing) == [raised |-> TRUE, value |-> nothing]

\* what the future of task t of the running stage can hold when the task ends
TaskOutcomes(t) ==
    IF pc = "scan"
    THEN {Returned(ScanSinglePath(PathPrefix(scan_prefix, t), pages_read)) :
              pages_read \in PagesRead(PathPrefix(scan_prefix, t))}
         \cup {Raised({})}
    ELSE IF pc = "pass1"
    THEN {Returned(ProcessCsvForProjects(csv_paths[t])), Raised({})}
    ELSE {Returned(ProcessCsvForAllProjects(
                       csv_paths[t],
                       IF pc = "pass2_orphaned" THEN orphaned_projects
                       ELSE non_orphaned_projects,
                       start_datetime, end_datetime)),
          Raised(<<>>)}

\* a worker ends the task it was given: its future is done
FutureDone ==
    /\ pc \in FanInStages
    /\ \E t \in pending :
         /\ t \notin DOMAIN futures
         /\ \E outcome \in TaskOutcomes(t) :
               futures' = futures @@ (t :> outcome)
    /\ UNCHANGED <<pc, store, envVars, otherVars, csv_paths, scanVars, pending,
                   all_projects, reconVars, collectVars, argVars, delVars>>

\* one iteration of the loop over as_completed(...): the result of a future
\* that is done is merged, or the exception it raises is logged
CollectResult ==
    /\ pc \in FanInStages
    /\ \E t \in pending :
         /\ t \in DOMAIN futures
         /\ LET future == futures[t] IN
            IF future.raised
            THEN UNCHANGED <<all_projects, all_project_files, total_size>>
            ELSE IF pc \in {"scan", "pass1"}
            THEN /\ all_projects' = all_projects \cup future.value
                 /\ UNCHANGED <<all_project_files, total_size>>
            ELSE LET merged == MergeCsvResult(all_project_files, total_size,
                                              future.value)
                 IN  /\ all_project_files' = merged.files
                     /\ total_size' = merged.total
                     /\ UNCHANGED all_projects
         /\ pending' = pending \ {t}
    /\ UNCHANGED <<pc, store, futures, envVars, otherVars, csv_paths, scanVars,
                   reconVars, orphaned_size, non_orphaned_files, argVars, delVars>>

\* a window that ends in the last hour, two partitions, and a bucket that
\* lacks at most one of the marker objects
InitFanIn ==
    /\ pc = "start"
    /\ store = StoreInit
    /\ store_reachable = TRUE
    /\ markers \in {MarkerUniverse \ lacking :
                      lacking \in {{}} \cup {{m} : m \in MarkerUniverse}}
    /\ manifest \in [1..2 -> Partitions]
    /\ snapshot = "ok"
    /\ start_datetime \in Times
    /\ end_datetime = MaxHour * 60 + 30
    /\ FindInit
    /\ orphaned_files = <<>>
    /\ dry_run = TRUE
    /\ batch_size = 1
    /\ DelInit
    /\ OtherInit

NextFanIn ==
    \/ StartScan \/ ScanPreviewDone \/ ScanV3Done
    \/ StartPass1 \/ Reconcile
    \/ OrphanedCollected \/ NonOrphanedCollected
    \/ FutureDone \/ CollectResult

SpecFanIn == InitFanIn /\ [][NextFanIn]_vars

\* every submitted task ends and the collecting loop goes on
FairFanIn == SpecFanIn /\ WF_vars(NextFanIn)

(* ------------------- properties of delete_orphaned_data ---------------- *)

RECURSIVE Flatten(_)
Flatten(ss) == IF ss = <<>> THEN <<>> ELSE Head(ss) \o Flatten(Tail(ss))

CeilDiv(n, b) == (n + b - 1) \div b

InputHasV3Key ==
    \E i \in 1..Len(orphaned_files) :
        \E j \in 1..Len(orphaned_files[i].v) : EndsWithV3(orphaned_files[i].v[j][1])

\* C1: no key ending in ".v3.gz" is in the key list of any delete_objects
\* call, whatever the input mapping and the batch size.
C1_NoProtectedKeyInDeleteCall ==
    \A c \in 1..Len(delete_calls) :
        \A j \in 1..Len(delete_calls[c]) : ~EndsWithV3(delete_calls[c][j])

C1_Witness ==
    /\ pc = "delete_returned"
    /\ InputHasV3Key
    /\ Len(delete_calls) >= 2

\* C3: with dry_run set, no delete_objects call is issued and the bucket
\* keeps every object.
C3_DryRunHasNoEffect ==
    dry_run => (delete_calls = <<>> /\ store = StoreInit)

C3_Witness ==
    /\ pc = "delete_returned"
    /\ dry_run
    /\ Len(CollectPreviewFiles(orphaned_files)) >= 2

\* C4: the counts a dry run returns are the project count and the number of
\* keys a real run on the same mapping puts into its batches.
C4_DryRunCountsAreIntendedDeletions ==
    (pc = "delete_returned" /\ dry_run) =>
        ret = <<Len(orphaned_files), Len(CollectPreviewFiles(orphaned_files))>>

\* C8: a real run over n qualifying keys issues ceil(n / batch_size) calls of
\* 1..batch_size keys, only the last one short, which carry the qualifying
\* keys of all projects in order, each occurrence once.
C8_BatchesPartitionQualifyingKeys ==
    LET qualifying == CollectPreviewFiles(orphaned_files)
        n == Len(qualifying)
        carried == Flatten(delete_calls)
    IN  /\ \A c \in 1..Len(delete_calls) :
              /\ Len(delete_calls[c]) \in 1..batch_size
              /\ (c < Len(delete_calls) => Len(delete_calls[c]) = batch_size)
        /\ Len(carried) <= n
        /\ carried = SubSeq(qualifying, 1, Len(carried))
        /\ (pc = "delete_returned" /\ ~dry_run) =>
              /\ Len(delete_calls) = CeilDiv(n, batch_size)
              /\ carried = qualifying

\* a short last batch, and a first batch that spans two projects
C8_Witness ==
    /\ pc = "delete_returned"
    /\ batch_size = 2
    /\ Len(delete_calls) = 2
    /\ Len(delete_calls[2]) = 1
    /\ Len(orphaned_files) = 2
    /\ Len(PreviewFilesOf(orphaned_files[1].v)) = 1

\* C9: when every call returned a response, files_deleted is the number of
\* qualifying keys minus the per-key errors reported over all batches.
C9_FilesDeletedIsKeysMinusErrors ==
    (pc = "delete_returned" /\ ~dry_run /\ raised = 0) =>
        ret[2] = Len(CollectPreviewFiles(orphaned_files)) - err_total

C9_Witness ==
    /\ pc = "delete_returned"
    /\ ~dry_run
    /\ raised = 0
    /\ err_total = 1
    /\ Len(delete_calls) >= 2
    /\ ret[2] = 3

\* C10: a batch whose response reports per-key errors adds its successful
\* count to files_deleted and the loop goes on with the next batch; the run
\* returns only when every batch was issued, in order.
C10_ErrorsDoNotStopTheRun ==
    /\ [][(pc = "delete_loop" /\ Len(delete_calls') = Len(delete_calls) + 1
              /\ last_response'.kind = "errors") =>
            /\ pc' = "delete_loop"
            /\ del_i' = del_i + batch_size
            /\ files_deleted' = files_deleted
                  + Len(delete_calls'[Len(delete_calls')])
                  - Cardinality(last_response'.errs)]_vars
    /\ [](pc = "delete_returned" /\ ~dry_run =>
            Flatten(delete_calls) = CollectPreviewFiles(orphaned_files))

\* a batch is issued after an earlier batch reported errors
C10_Witness ==
    /\ pc = "delete_loop"
    /\ err_total >= 1
    /\ Len(delete_calls) >= 2
    /\ last_response.kind = "ok"
    /\ files_deleted = Len(Flatten(delete_calls)) - err_total

(* --------------------- properties of a clean-orphans run --------------- *)

\* the (user_id, project_id) a key lies under
KeyProject(key) == <<Split(key)[1], Split(key)[2]>>

DeletedKeys == SetOf(Flatten(delete_calls))

\* the hours of the window, as scan_for_projects rounds it
WindowHours ==
    {t \in RoundToHour(start_datetime)..RoundToHour(end_datetime) : t % 60 = 0}

\* the bucket holds a marker of the class for the project in the window
HasMarker(prefix, project) ==
    \E t \in WindowHours :
        MarkerKey(prefix, t, project[1][1], project[2][1]) \in markers

HasBothMarkers(project) == HasMarker("preview.v1", project) /\ HasMarker("v3", project)

C5_OrphanedAndNonOrphanedDisjoint ==
    /\ orphaned_projects \cap non_orphaned_projects = {}
    /\ (orphaned_projects \cup non_orphaned_projects) \subseteq all_inventory_projects
    /\ DictKeys(orphaned_files) \cap DictKeys(non_orphaned_files.d) = {}

C5_Witness ==
    /\ pc = "found"
    /\ orphaned_projects # {}
    /\ non_orphaned_projects # {}
    /\ orphaned_files # <<>>
    /\ non_orphaned_files.d # <<>>

\* the keys of the records of a file index
IndexKeys(d) == UNION {{d[i].v[j][1] : j \in 1..Len(d[i].v)} : i \in 1..Len(d)}

\* C6: pass 2 never puts a key ending in ".v3.gz" into the orphaned or the
\* non-orphaned file index.
C6_NoProtectedKeyInAnyIndex ==
    \A key \in IndexKeys(all_project_files) \cup IndexKeys(orphaned_files)
                  \cup IndexKeys(non_orphaned_files.d) :
        ~EndsWithV3(key)

\* the rows of a partition that are read before a read raises
RECURSIVE ReadableRows(_)
ReadableRows(rows) ==
    IF rows = <<>> \/ Head(rows) = R_undecodable THEN <<>>
    ELSE <<Head(rows)>> \o ReadableRows(Tail(rows))

RECURSIVE RowsOfParts(_, _)
RowsOfParts(csvs, merged) ==
    IF csvs = <<>> THEN <<>>
    ELSE (IF Len(csvs) \in merged THEN RowsOfParts(SubSeq(csvs, 1, Len(csvs) - 1), merged)
                                       \o ReadableRows(csvs[Len(csvs)])
          ELSE RowsOfParts(SubSeq(csvs, 1, Len(csvs) - 1), merged))

InNamespace(row) == Len(row) >= 4 /\ ContainsPreviewDir(row[2])

IsCandidate(row, projects) == KeyProject(row[2]) \in projects

InDateRange(row) ==
    ParseIso(row[4]) # -1 /\ start_datetime <= ParseIso(row[4])
        /\ ParseIso(row[4]) <= end_datetime

\* the records pass 2 is to include for the projects, of the merged partitions
IncludedRows(projects, merged) ==
    SelectSeq(RowsOfParts(csv_paths, merged),
              LAMBDA row : InNamespace(row) /\ IsCandidate(row, projects)
                              /\ InDateRange(row))

RowSize(row) == IF ParseInt(row[3]) = -1 THEN 0 ELSE ParseInt(row[3])

RECURSIVE SumRowSizes(_)
SumRowSizes(rows) ==
    IF rows = <<>> THEN 0 ELSE RowSize(Head(rows)) + SumRowSizes(Tail(rows))

CountIn(seq, x) == Cardinality({i \in 1..Len(seq) : seq[i] = x})

\* the index holds the records (key, last_modified) of the rows, each under
\* its project path, as often as the rows hold them
IndexHoldsExactly(index, rows) ==
    /\ SumLens(index) = Len(rows)
    /\ \A i \in 1..Len(rows) :
          LET row == rows[i]
              path == ProjectPath(Split(row[2])[1], Split(row[2])[2])
              same == SelectSeq(rows, LAMBDA r : r[2] = row[2] /\ r[4] = row[4])
          IN  /\ DictHas(index, path)
              /\ CountIn(DictGet(index, path), <<row[2], row[4]>>) = Len(same)

Pass2Consistent(index, total, projects, merged) ==
    LET rows == IncludedRows(projects, merged) IN
    /\ IndexHoldsExactly(index, rows)
    /\ total = SumRowSizes(rows)

\* C7: the byte total of pass 2 is the sum of the sizes of the records in the
\* index it returns; rows excluded by the date filter, by candidate
\* membership or by the namespace test add no entry and no bytes.
C7_TotalIsSumOfIndexedRecords ==
    /\ pc = "pass2_orphaned" =>
          Pass2Consistent(all_project_files, total_size, orphaned_projects,
                          (1..Len(csv_paths)) \ pending)
    /\ pc = "pass2_non_orphaned" =>
          Pass2Consistent(all_project_files, total_size, non_orphaned_projects,
                          (1..Len(csv_paths)) \ pending)
    /\ pc \in {"pass2_non_orphaned", "found"} =>
          Pass2Consistent(orphaned_files, orphaned_size, orphaned_projects,
                          1..Len(csv_paths))

C7_Witness ==
    LET rows == RowsOfParts(csv_paths, 1..Len(csv_paths)) IN
    /\ pc = "found"
    /\ orphaned_size > 0
    /\ \E i \in 1..Len(rows) : ~InNamespace(rows[i]) /\ Len(rows[i]) >= 4
    /\ \E i \in 1..Len(rows) :
          InNamespace(rows[i]) /\ ~IsCandidate(rows[i], orphaned_projects)
    /\ \E i \in 1..Len(rows) :
          /\ InNamespace(rows[i]) /\ IsCandidate(rows[i], orphaned_projects)
          /\ ~InDateRange(rows[i])

(* ----------------------- properties of the marker scan ----------------- *)

\* the order of str comparison on the tokens of the project identifiers
Rank(token) ==
    CASE token = "p1" -> 1
      [] token = "p2" -> 2
      [] token = "u1" -> 3

\* (user_id, project_id) tuples compare by user_id, then by project_id
ProjectLess(a, b) ==
    \/ Rank(a[1][1]) < Rank(b[1][1])
    \/ a[1] = b[1] /\ Rank(a[2][1]) < Rank(b[2][1])

\* C11: the list scan_for_projects returns holds exactly the projects found by
\* both class scans of the window, in strictly ascending order (so without
\* duplicates); every project a class scan found has a marker of that class
\* in the window.
C11_ScanReturnsSortedIntersection ==
    pc = "inventory" =>
        /\ SetOf(valid_projects_list) = preview_projects \cap v3_projects
        /\ \A i, j \in 1..Len(valid_projects_list) :
              i < j => ProjectLess(valid_projects_list[i], valid_projects_list[j])
        /\ \A p \in preview_projects : HasMarker("preview.v1", p)
        /\ \A p \in v3_projects : HasMarker("v3", p)
        /\ valid_projects = SetOf(valid_projects_list)

\* two projects are returned, found in different hours of the window
C11_Witness ==
    /\ pc = "inventory"
    /\ Len(valid_projects_list) = 2
    /\ RoundToHour(start_datetime) < RoundToHour(end_datetime)

\* C12: for a window whose start equals its end, scan_for_projects returns the
\* empty list, whatever markers the bucket holds.
C12_ZeroLengthWindowReturnsEmpty ==
    (pc = "inventory" /\ start_datetime = end_datetime) => valid_projects_list = <<>>

\* the hours between the rounded start and the rounded end of the window
HoursOfWindow == (RoundToHour(end_datetime) - RoundToHour(start_datetime)) \div 60

\* C20: for each marker class the scanner submits one listing task per hour
\* between start and end, (end - start in hours) x 2 tasks in all.
C20_TwoTasksPerHourOfWindow ==
    [][((pc = "start" /\ pc' = "scan")
           \/ (pc = "scan" /\ scan_prefix = "preview.v1" /\ scan_prefix' = "v3"))
        => Cardinality(pending') = HoursOfWindow]_vars

(* ------------------ properties of find_orphaned_data failures ---------- *)

\* C13: when every marker listing fails because the bucket is out of reach,
\* find_orphaned_data fails and returns no result.
C13_UnreachableStoreFailsTheRun ==
    ~store_reachable => pc \notin {"found", "confirm", "delete_call", "delete_loop",
                                   "delete_returned", "done"}

\* C14: when the manifest cannot be fetched or no partition can be downloaded,
\* find_orphaned_data fails and returns no result.
C14_SnapshotFailureFailsTheRun ==
    snapshot # "ok" => pc \notin {"found", "confirm", "delete_call", "delete_loop",
                                  "delete_returned", "done"}

(* ------------------ properties of the clean-orphans stages ------------- *)

\* the steps from one stage of the command to the next
StageSteps ==
    { <<"start", "scan">>, <<"scan", "inventory">>, <<"inventory", "pass1">>,
      <<"inventory", "failed">>, <<"pass1", "pass2_orphaned">>,
      <<"pass2_orphaned", "pass2_non_orphaned">>, <<"pass2_orphaned", "found">>,
      <<"pass2_non_orphaned", "found">>, <<"found", "done">>, <<"found", "confirm">>,
      <<"confirm", "delete_call">>, <<"confirm", "done">>,
      <<"delete_call", "delete_loop">>, <<"delete_loop", "delete_returned">>,
      <<"delete_returned", "done">> }

DeleteStages == {"delete_call", "delete_loop", "delete_returned"}

\* C18: the stages of a clean-orphans run follow each other in one fixed
\* order and none is entered twice; delete_orphaned_data is called only from
\* the confirmed prompt, after the scan, both passes and the reconciliation
\* have finished; a delete_objects call is issued only inside that call; with
\* dry_run set the prompt and the delete stages are never entered.
C18_PipelineIsLinear ==
    /\ [][pc' # pc => <<pc, pc'>> \in StageSteps]_vars
    /\ [][delete_calls' # delete_calls => pc = "delete_loop"]_vars
    /\ [](pc \in DeleteStages =>
            /\ pending = {}
            /\ orphaned_files # <<>>
            /\ orphaned_projects = all_inventory_projects \ valid_projects)
    /\ [](dry_run => pc \notin DeleteStages \cup {"confirm"} /\ delete_calls = <<>>)

\* a confirmed run that went through every stage and issued two delete calls
C18_Witness ==
    /\ pc = "done"
    /\ ~dry_run
    /\ non_orphaned_files.present
    /\ Len(delete_calls) >= 2

(* --------------- properties of _get_project_files_fast ----------------- *)

\* every record of the index f1 is in f2 under the same project path, at
\* least as often
SubIndex(f1, f2) ==
    \A i \in 1..Len(f1) :
        /\ DictHas(f2, f1[i].k)
        /\ \A j \in 1..Len(f1[i].v) :
              CountIn(f1[i].v, f1[i].v[j]) <= CountIn(DictGet(f2, f1[i].k), f1[i].v[j])

SameIndex(f1, f2) == SubIndex(f1, f2) /\ SubIndex(f2, f1)

HasDateRange(result) == result.start # NoneTime /\ result.end # NoneTime

SameDateArgs(r1, r2) == r1.start = r2.start /\ r1.end = r2.end

\* C15: two calls of pass 2 on the same partitions, candidate set and date
\* arguments return indices with the same project paths and the same records
\* per project, as often, and the same byte total, whatever order the CSV
\* results were merged in.
C15_Pass2IsIdempotent ==
    \A i, j \in 1..Len(pass2_results) :
        SameDateArgs(pass2_results[i], pass2_results[j]) =>
            /\ SameIndex(pass2_results[i].files, pass2_results[j].files)
            /\ pass2_results[i].total = pass2_results[j].total

\* two calls with the same arguments merged the CSV results in different
\* orders and returned dicts that differ in order
C15_Witness ==
    /\ Len(pass2_results) = 2
    /\ SameDateArgs(pass2_results[1], pass2_results[2])
    /\ HasDateRange(pass2_results[1])
    /\ pass2_results[1].files # pass2_results[2].files
    /\ pass2_results[1].total > 0

\* no row that can be read has a timestamp inside the date range of the call
NoTimestampInRange(result) ==
    LET rows == RowsOfParts(csv_paths, 1..Len(csv_paths)) IN
    \A i \in 1..Len(rows) :
        Len(rows[i]) >= 4 =>
            LET t == ParseIso(rows[i][4]) IN
            ~(t # -1 /\ result.start <= t /\ t <= result.end)

\* C16: what a call with a date range returns is contained in what a call
\* without date range returns for the same partitions and candidates, records
\* and bytes; when no timestamp lies in the range the call returns the empty
\* index and zero bytes.
C16_DateFilterSelectsSubset ==
    /\ \A i, j \in 1..Len(pass2_results) :
          (HasDateRange(pass2_results[i]) /\ ~HasDateRange(pass2_results[j])) =>
              /\ SubIndex(pass2_results[i].files, pass2_results[j].files)
              /\ pass2_results[i].total <= pass2_results[j].total
    /\ \A i \in 1..Len(pass2_results) :
          (HasDateRange(pass2_results[i]) /\ NoTimestampInRange(pass2_results[i])) =>
              /\ pass2_results[i].files = <<>>
              /\ pass2_results[i].total = 0

\* a call with a date range returned some records, and fewer than the call
\* without date range
C16_Witness ==
    /\ Len(pass2_results) = 2
    /\ HasDateRange(pass2_results[1])
    /\ ~HasDateRange(pass2_results[2])
    /\ pass2_results[1].files # <<>>
    /\ SumLens(pass2_results[1].files) < SumLens(pass2_results[2].files)
    /\ pass2_results[1].total < pass2_results[2].total

(* ----------------------- properties of generate_report ----------------- *)

\* the lines of a text
RECURSIVE SplitLines(_)
SplitLines(text) ==
    IF \A i \in 1..Len(text) : text[i] # "\n" THEN <<text>>
    ELSE LET j == CHOOSE i \in 1..Len(text) :
                      text[i] = "\n" /\ \A k \in 1..(i - 1) : text[k] # "\n"
         IN  <<SubSeq(text, 1, j - 1)>> \o SplitLines(SubSeq(text, j + 1, Len(text)))

\* the project paths of the section headings of a report, in text order
SectionPaths(text) ==
    LET headings == SelectSeq(SplitLines(text),
                              LAMBDA line : line # <<>> /\ Head(line) = "### ")
    IN  [i \in 1..Len(headings) |-> Tail(headings[i])]

\* str comparison of two project paths "user_id/project_id"
PathLess(a, b) == ProjectLess(<<<<a[1]>>, <<a[3]>>>>, <<<<b[1]>>, <<b[3]>>>>)

SameContent(d, e) ==
    /\ DictKeys(d) = DictKeys(e)
    /\ \A k \in DictKeys(d) : DictGet(d, k) = DictGet(e, k)

\* C17: calls of generate_report on mappings of the same content return the
\* same text, whatever the insertion order of the projects; the project
\* sections of a report are those of its mapping, in strictly ascending order
\* of project path.
C17_ReportIsDeterministic ==
    /\ \A i, j \in 1..Len(reports) :
          SameContent(reports[i].orphaned_files, reports[j].orphaned_files)
              => reports[i].report = reports[j].report
    /\ \A i \in 1..Len(reports) :
          LET paths == SectionPaths(reports[i].report) IN
          /\ SetOf(paths) = DictKeys(reports[i].orphaned_files)
          /\ \A m, n \in 1..Len(paths) : m < n => PathLess(paths[m], paths[n])

\* two calls on mappings of two projects that differ in insertion order
C17_Witness ==
    /\ Len(reports) = 2
    /\ Len(reports[1].orphaned_files) = 2
    /\ reports[1].orphaned_files # reports[2].orphaned_files
    /\ reports[1].orphaned_files[1].v # reports[1].orphaned_files[2].v
    /\ reports[1].orphaned_files[1].v # <<>>

(* ------------------- properties of _rotation_to_degrees ---------------- *)

Recognised(rotation) == rotation.type = "str" /\ rotation.value \in DOMAIN RotationMap

\* C19: _rotation_to_degrees returns one of 0, 90, 180, 270 for every input:
\* 0 for None, for "None" and for every value that is no key of the map, 270
\* for "CW90", 180 for "CW180" and 90 for "CW270".
C19_RotationToDegreesIsTotal ==
    \A i \in 1..Len(results) :
        LET rotation == image_tasks[i]
            conversion == results[i].conversion
        IN  /\ ~conversion.raises
            /\ conversion.degrees \in {0, 90, 180, 270}
            /\ (rotation = PyNone \/ rotation = PyStr("None") \/ ~Recognised(rotation))
                  => conversion.degrees = 0
            /\ rotation = PyStr("CW90") => conversion.degrees = 270
            /\ rotation = PyStr("CW180") => conversion.degrees = 180
            /\ rotation = PyStr("CW270") => conversion.degrees = 90

(* ------------------- properties of failing tasks ----------------------- *)

\* the projects a listing task of the hour returns when no request of it fails
HourProjects(prefix, t) == ProjectsOfMarkers(Listing(PathPrefix(prefix, t)))

\* the set is what some tasks returned whole, the other tasks adding nothing
WholeHoursOnly(prefix, projects) ==
    \E done \in SUBSET WindowHours :
        projects = UNION {HourProjects(prefix, t) : t \in done}

\* C21: a listing task that fails adds no project for its hour and does not
\* end the scan: each class set scan_for_projects works with is the union of
\* what the tasks that did not fail found, and the list returned is the sorted
\* intersection of the two.
C21_FailedTaskContributesNothing ==
    pc = "inventory" =>
        /\ WholeHoursOnly("preview.v1", preview_projects)
        /\ WholeHoursOnly("v3", v3_projects)
        /\ valid_projects_list = Sorted(preview_projects \cap v3_projects)

\* reading the partition raises at some row
ParsingFails(csv) == \E i \in 1..Len(csv) : csv[i] = R_undecodable

\* C22: in pass 1 a partition whose parsing fails, at whatever row, adds no
\* project to the candidate set, and the other partitions are still reduced:
\* the candidate set is the union of the projects of the partitions that
\* parse to the end.
C22_FailedPartitionContributesNothing ==
    pc = "pass2_orphaned" =>
        all_inventory_projects =
            UNION {ProcessCsvForProjects(csv_paths[i]) :
                      i \in {j \in 1..Len(csv_paths) : ~ParsingFails(csv_paths[j])}}

(* ------------------ properties of the preview namespace ---------------- *)

PreviewDirTokens == {"preview.v1", "preview.v2"}

\* the key reads <ownerId>/<projectId>/preview.<version>/<file>
HasPreviewNamespaceShape(key) ==
    /\ Len(key) >= 7
    /\ key[1] \in UuidTokens
    /\ key[2] = SLASH
    /\ key[3] \in UuidTokens
    /\ key[4] = SLASH
    /\ key[5] \in PreviewDirTokens
    /\ key[6] = SLASH

\* C23: every key in a file index of pass 2 and every key sent to a delete
\* call has the shape <ownerId>/<projectId>/preview.<version>/<file> and lies
\* under a project of the candidate set pass 2 was given; a key with a
\* preview.v1 segment deeper in its path is in no index and no delete call.
C23_OnlyPreviewNamespaceKeys ==
    /\ \A key \in IndexKeys(orphaned_files) \cup DeletedKeys :
          HasPreviewNamespaceShape(key) /\ KeyProject(key) \in orphaned_projects
    /\ \A key \in IndexKeys(non_orphaned_files.d) :
          HasPreviewNamespaceShape(key) /\ KeyProject(key) \in non_orphaned_projects
    /\ \A key \in IndexKeys(all_project_files) :
          /\ HasPreviewNamespaceShape(key)
          /\ KeyProject(key) \in
                (IF pc = "pass2_orphaned" THEN orphaned_projects
                 ELSE non_orphaned_projects)

(* ------------- properties of the date filter of pass 2 ----------------- *)

\* the rows of the partitions of the call that lie under "/preview.v1/" and
\* under a project of the candidate set
CandidateRows ==
    SelectSeq(RowsOfParts(csv_paths, 1..Len(csv_paths)),
              LAMBDA row : InNamespace(row) /\ IsCandidate(row, orphaned_projects))

\* the last_modified field is empty or is no ISO timestamp
NoTimestamp(row) == ParseIso(row[4]) = -1

\* how often the index returned holds the record of the row
RecordCount(index, row) ==
    LET path == ProjectPath(Split(row[2])[1], Split(row[2])[2]) IN
    IF DictHas(index, path) THEN CountIn(DictGet(index, path), <<row[2], row[4]>>)
    ELSE 0

\* the rows whose timestamp parses and lies in the date range of the call
RowsInRange(result) ==
    SelectSeq(CandidateRows,
              LAMBDA row : /\ ~NoTimestamp(row)
                           /\ result.start <= ParseIso(row[4])
                           /\ ParseIso(row[4]) <= result.end)

C25_WindowDoesNotFilterRecords ==
    pc \in {"pass2_non_orphaned", "found"} =>
        /\ \A i \in 1..Len(CandidateRows) :
              RecordCount(orphaned_files, CandidateRows[i]) >= 1
        /\ orphaned_size = SumRowSizes(CandidateRows)

(* ----------------- properties of the fan-out/fan-in stages ------------- *)

\* the tasks the running stage submitted
AllTasks ==
    IF pc = "scan"
    THEN PathsToScan(RoundToHour(start_datetime), RoundToHour(end_datetime))
    ELSE 1..Len(csv_paths)

\* the tasks whose future the collecting loop has been through
Collected == AllTasks \ pending

\* of those tasks, the ones whose future returned a value
ReturnedOf(tasks) == {t \in tasks : t \in DOMAIN futures /\ ~futures[t].raised}

UnionOfResults(tasks) == UNION {futures[t].value : t \in ReturnedOf(tasks)}

\* how often the results of the tasks hold the record under the project path
RECURSIVE CountInResults(_, _, _)
CountInResults(tasks, path, record) ==
    IF tasks = {} THEN 0
    ELSE LET t == CHOOSE x \in tasks : TRUE
             d == futures[t].value
             found == IF DictHas(d, path) THEN DictGet(d, path) ELSE <<>>
         IN  Cardinality({i \in 1..Len(found) :
                              <<found[i][1], found[i][3]>> = record})
             + CountInResults(tasks \ {t}, path, record)

RECURSIVE SizeOfDict(_)
SizeOfDict(d) == IF d = <<>> THEN 0 ELSE SumSizes(Head(d).v) + SizeOfDict(Tail(d))

RECURSIVE SizeOfResults(_)
SizeOfResults(tasks) ==
    IF tasks = {} THEN 0
    ELSE LET t == CHOOSE x \in tasks : TRUE IN
         SizeOfDict(futures[t].value) + SizeOfResults(tasks \ {t})

RECURSIVE LenOfResults(_)
LenOfResults(tasks) ==
    IF tasks = {} THEN 0
    ELSE LET t == CHOOSE x \in tasks : TRUE IN
         SumLens(futures[t].value) + LenOfResults(tasks \ {t})

\* the index holds, per project path, the records of the results of the
\* tasks, each as often as the results hold it, and nothing else
IndexIsSumOfResults(index, tasks) ==
    /\ \A i, j \in 1..Len(index) : i # j => index[i].k # index[j].k
    /\ DictKeys(index) = UNION {DictKeys(futures[t].value) : t \in tasks}
    /\ SumLens(index) = LenOfResults(tasks)
    /\ \A i \in 1..Len(index) : \A j \in 1..Len(index[i].v) :
          CountIn(index[i].v, index[i].v[j])
              = CountInResults(tasks, index[i].k, index[i].v[j])

Accumulators == <<all_projects, all_project_files, total_size>>

\* C26: what a stage accumulates is fixed by the results of its tasks and not
\* by the order in which they end or are collected: the marker sets and the
\* candidate set are the union of the results, the file index holds per
\* project the records of the results as a multiset and the byte total is
\* their sum; only the collecting loop writes the accumulators, a worker that
\* ends its task writes none.
C26_ResultsIndependentOfCompletionOrder ==
    /\ [](pc \in FanInStages =>
            /\ Collected \subseteq DOMAIN futures
            /\ pc \in {"scan", "pass1"} => all_projects = UnionOfResults(Collected)
            /\ pc \in {"pass2_orphaned", "pass2_non_orphaned"} =>
                  /\ IndexIsSumOfResults(all_project_files, ReturnedOf(Collected))
                  /\ total_size = SizeOfResults(ReturnedOf(Collected)))
    /\ [][(pc = "scan" /\ scan_prefix = "preview.v1" /\ scan_prefix' = "v3")
            => preview_projects' = UnionOfResults(AllTasks)]_vars
    /\ [][(pc = "scan" /\ pc' = "inventory")
            => v3_projects' = UnionOfResults(AllTasks)]_vars
    /\ [][(pc = "pass1" /\ pc' = "pass2_orphaned")
            => all_inventory_projects' = UnionOfResults(AllTasks)]_vars
    /\ [][(pc = "pass2_orphaned" /\ pc' # pc) =>
            /\ IndexIsSumOfResults(orphaned_files', ReturnedOf(AllTasks))
            /\ orphaned_size' = SizeOfResults(ReturnedOf(AllTasks))]_vars
    /\ [][(pc = "pass2_non_orphaned" /\ pc' # pc) =>
            IndexIsSumOfResults(non_orphaned_files'.d, ReturnedOf(AllTasks))]_vars
    /\ [][(futures' # futures /\ futures' # <<>>) => UNCHANGED Accumulators]_vars

\* both partitions returned records of one project and the result of the
\* second partition was merged first
C26_Witness ==
    /\ pc = "pass2_orphaned"
    /\ pending = {}
    /\ Len(csv_paths) = 2
    /\ ReturnedOf({1, 2}) = {1, 2}
    /\ futures[1].value # <<>>
    /\ futures[2].value # <<>>
    /\ DictKeys(futures[1].value) \cap DictKeys(futures[2].value) # {}
    /\ all_project_files[1].k = futures[2].value[1].k
    /\ all_project_files[1].k # futures[1].value[1].k

\* the stage of find_orphaned_data the run is in
StageOf == <<pc, scan_prefix>>

\* the order in which find_orphaned_data goes through its stages
StageOrder ==
    { <<<<"start", "preview.v1">>, <<"scan", "preview.v1">>>>,
      <<<<"scan", "preview.v1">>, <<"scan", "v3">>>>,
      <<<<"scan", "v3">>, <<"inventory", "v3">>>>,
      <<<<"inventory", "v3">>, <<"pass1", "v3">>>>,
      <<<<"pass1", "v3">>, <<"pass2_orphaned", "v3">>>>,
      <<<<"pass2_orphaned", "v3">>, <<"pass2_non_orphaned", "v3">>>>,
      <<<<"pass2_orphaned", "v3">>, <<"found", "v3">>>>,
      <<<<"pass2_non_orphaned", "v3">>, <<"found", "v3">>>> }

\* C27: every stage is a barrier. A step to the next stage is taken only when
\* every task of the stage has ended, returned or raised, and been collected,
\* and it submits all tasks of the next stage at once; the stages follow in
\* the order preview.v1 scan, v3 scan, pass 1, set difference, pass 2; the
\* tasks that run or are done are tasks of the stage the run is in; and when
\* every task ends, the run comes to the end of the last stage.
C27_StagesAreBarriers ==
    /\ [][StageOf' # StageOf =>
            /\ <<StageOf, StageOf'>> \in StageOrder
            /\ pending = {}
            /\ pc \in FanInStages => DOMAIN futures = AllTasks
            /\ futures' = <<>>
            /\ pending' = IF pc' \in FanInStages THEN AllTasks' ELSE {}]_vars
    /\ [][(pc = "pass1" /\ pc' # pc) =>
            /\ orphaned_projects' = all_projects \ valid_projects
            /\ non_orphaned_projects' = all_projects \cap valid_projects]_vars
    /\ [](IF pc \in FanInStages
          THEN pending \subseteq AllTasks /\ DOMAIN futures \subseteq AllTasks
          ELSE pending = {} /\ futures = <<>>)
    /\ <>(pc = "found")

\* the last stage has two tasks; one raised, one returned, both are collected
C27_Witness ==
    /\ pc = "pass2_non_orphaned"
    /\ pending = {}
    /\ DOMAIN futures = {1, 2}
    /\ futures[1].raised
    /\ ~futures[2].raised
    /\ all_project_files # <<>>
    /\ RoundToHour(start_datetime) < RoundToHour(end_datetime)

(* ------------------ properties of the merge of pass 2 ------------------ *)

\* the keys of the inventory rows
InventoryKeys ==
    UNION {{part[i][2] : i \in {j \in 1..Len(part) : Len(part[j]) >= 2}} :
              part \in Partitions}

\* how often the dict of project paths holds a record of the key
KeyCount(d, key) ==
    Cardinality({p \in UNION {{<<i, j>> : j \in 1..Len(d[i].v)} : i \in 1..Len(d)} :
                    d[p[1]].v[p[2]][1] = key})

\* what the worker returns for partition n in the call that gave the result
PartitionResult(n, result) ==
    ProcessCsvForAllProjects(csv_paths[n], orphaned_projects, result.start, result.end)

RECURSIVE KeyCountOverPartitions(_, _, _)
KeyCountOverPartitions(n, key, result) ==
    IF n = 0 THEN 0
    ELSE KeyCount(PartitionResult(n, result), key)
            + KeyCountOverPartitions(n - 1, key, result)

RECURSIVE SizeOverPartitions(_, _)
SizeOverPartitions(n, result) ==
    IF n = 0 THEN 0
    ELSE SizeOfDict(PartitionResult(n, result)) + SizeOverPartitions(n - 1, result)

\* C28: pass 2 merges without de-duplication. The index a call returns holds
\* every key as often as the results of all partitions hold it together, so
\* a key that k partitions yield once is in the index k times, and the byte
\* total is the sum of the sizes of all records of all partition results.
C28_MergeKeepsDuplicates ==
    \A c \in 1..Len(pass2_results) :
        LET result == pass2_results[c] IN
        /\ \A key \in InventoryKeys :
               KeyCount(result.files, key)
                   = KeyCountOverPartitions(Len(csv_paths), key, result)
        /\ result.total = SizeOverPartitions(Len(csv_paths), result)
        /\ IndexKeys(result.files) \subseteq InventoryKeys

\* two partitions hold the same row of a candidate project; the index has the
\* key twice and the total has its 5 bytes twice
C28_Witness ==
    /\ Len(csv_paths) = 2
    /\ \E c \in 1..Len(pass2_results) :
         LET result == pass2_results[c] IN
         /\ HasDateRange(result)
         /\ KeyCount(PartitionResult(1, result), K_p1_a) = 1
         /\ KeyCount(PartitionResult(2, result), K_p1_a) = 1
         /\ KeyCount(result.files, K_p1_a) = 2
         /\ result.total >= 10

(* ------------- properties of the per-class breakdown of a report ------- *)

\* the lines of the section of the project in the text of a report, from its
\* heading to the empty line that ends it
SectionOf(text, project_path) ==
    LET lines == SplitLines(text)
        first == CHOOSE i \in 1..Len(lines) : lines[i] = <<"### ">> \o project_path
        last == CHOOSE j \in (first + 1)..Len(lines) :
                    lines[j] = <<>> /\ \A k \in (first + 1)..(j - 1) : lines[k] # <<>>
    IN  SubSeq(lines, first, last)

\* the line of a class with n files; a class without files has no line
ClassLine(label, n) == IF n = 0 THEN <<>> ELSE << <<label>> \o Str(n) >>

\* the section of a project with n files, of which a are counted as preview
\* files, b as V3 files and c as other files
SectionWith(project_path, n, a, b, c) ==
    << <<"### ">> \o project_path, <<"  Files: ">> \o Str(n) >>
    \o ClassLine("  - Preview files: ", a)
    \o ClassLine("  - V3 files: ", b)
    \o ClassLine("  - Other files: ", c)
    \o << <<>> >>

\* C29: in every report the class counts of a project are a partition of its
\* files: the counts printed for preview, V3 and other files sum to the count
\* printed as Files.
C29_ClassCountsSumToFiles ==
    \A r \in 1..Len(reports) :
        \A i \in 1..Len(reports[r].orphaned_files) :
            LET project_path == reports[r].orphaned_files[i].k
                n == Len(reports[r].orphaned_files[i].v)
            IN  \E a, b, c \in 0..n :
                    /\ a + b + c = n
                    /\ SectionOf(reports[r].report, project_path)
                           = SectionWith(project_path, n, a, b, c)

(* ------------- properties of a delete call that raises ----------------- *)

\* C30: a delete_objects call that raises is neither propagated nor retried.
\* The step adds nothing to files_deleted and the loop goes on with the next
\* batch; the call returns, having issued every batch once and in order, and
\* the count it returns is at least 0 and at most the number of qualifying
\* keys less one for every call that raised.
C30_RaisingBatchIsSkipped ==
    /\ [][(delete_calls' # delete_calls /\ last_response'.kind = "raise") =>
            /\ files_deleted' = files_deleted
            /\ del_i' = del_i + batch_size
            /\ pc' = "delete_loop"
            /\ ret' = ret]_vars
    /\ []((pc = "delete_returned" /\ ~dry_run) =>
            /\ Flatten(delete_calls) = all_preview_files
            /\ \A c \in 1..Len(delete_calls) :
                  delete_calls[c]
                      = BatchAt(all_preview_files, (c - 1) * batch_size, batch_size)
            /\ ret[2] = files_deleted
            /\ 0 <= ret[2]
            /\ ret[2] <= Len(all_preview_files) - raised)
    /\ <>(pc = "delete_returned")

\* the first of three calls raised, the other two returned and were counted
C30_Witness ==
    /\ pc = "delete_returned"
    /\ ~dry_run
    /\ raised = 1
    /\ Len(delete_calls) = 3
    /\ last_response.kind = "ok"
    /\ err_total = 0
    /\ ret[2] = Len(all_preview_files) - Len(delete_calls[1])
    /\ ret[2] >= 2

====
